---- MODULE Spec2Model ----
(***************************************************************************)
(* Model of net/rpcclient.go: the request/response correlation core of the *)
(* RPC client.  Callers (callCmd, callCmdWithTimeout), the inbound message *)
(* handler (HandleOnMessage callback) and the close callback (OnClose) run *)
(* concurrently and share the client mutex, the running flag, sendSeq, the *)
(* send queue chSend and sessionMap.                                       *)
(***************************************************************************)
EXTENDS Integers, Sequences, FiniteSets, TLC

\* ---- bounds of the model ----
NCalls == 2        \* number of call invocations
QueueCap == 1      \* capacity of chSend (engine send queue size)
MaxFrames == 2     \* number of inbound frames the peer sends
MaxNameLen == 256  \* longest method name handed to Call

ByteMod == 256     \* a Go byte holds 0..255: byte(n) is n modulo 256

Calls == 1..NCalls
Seqs == 1..NCalls

\* ---- command codes and errors (values are opaque to this file) ----
CmdPing == "CmdPing"
CmdRpcMethod == "CmdRpcMethod"
CmdRpcError == "CmdRpcError"
CmdUser == "CmdUser"
InCmds == {CmdPing, CmdRpcMethod, CmdRpcError, CmdUser}
CallCmds == {CmdRpcMethod}
BodyOk == "rsp"          \* body of the sample success replies
BodyFail == "failed"     \* body of the sample error replies

ErrNil == "nil"
ErrRpcClientIsDisconnected == "ErrRpcClientIsDisconnected"
ErrRpcCallTimeout == "ErrRpcCallTimeout"

Plain == "callCmd"
Timed == "callCmdWithTimeout"

NoMsg == [none |-> TRUE]
NoRet == [line |-> 0, body |-> "nil", err |-> "not returned"]

VARIABLES
    running,     \* client.running
    mu,          \* holder of the client mutex: 0 when free, else the call holding it
    sendSeq,     \* client.sendSeq
    chSend,      \* client.chSend: sequence of frames, capacity QueueCap
    wire,        \* frames the transport writer took from chSend
    sessionMap,  \* client.sessionMap: seq -> session (named by its call)
    pc,          \* position of each invocation: "idle", "send" (hand-off pending,
                 \* mutex held), "wait" (on session.done), "remove" (deferred
                 \* removeSession pending), "done" (returned)
    kind,        \* which function the invocation runs
    cmdOf,       \* the cmd argument of the invocation
    seq,         \* session.seq of the invocation (0: no session allocated)
    done,        \* session.done of the invocation: [buf, closed], capacity 1
    got,         \* the RpcMessage the invocation received from session.done
    ret,         \* what the invocation returned: [line, body, err]
    router,      \* the inbound message goroutine: [pc, msg, session], pc one of
                 \* "idle", "deliver" (at session.done <- ...), "drop" (at the
                 \* log of a missing session), "panic"
    nIn,         \* inbound frames handled so far
    closePc,     \* transport close: "open", "stopping" (running cleared), "closed"
    nSent,       \* per session: values sent on session.done
    nRecv,       \* per session: receives completed on session.done
    namedCall    \* an invocation of Call: [stage, method, req, cmd, data]

vars == <<running, mu, sendSeq, chSend, wire, sessionMap, pc, kind, cmdOf, seq,
          done, got, ret, router, nIn, closePc, nSent, nRecv, namedCall>>

\* ---- helpers ----
NewRpcMessage(cmd, s) == [cmd |-> cmd, seq |-> s]

MapPut(m, k, v) == [x \in (DOMAIN m) \cup {k} |-> IF x = k THEN v ELSE m[x]]

MapDelete(m, k) == [x \in (DOMAIN m) \ {k} |-> m[x]]

EmptyMap == [x \in {} |-> 0]

EmptyChan == [buf |-> <<>>, closed |-> FALSE]

RouterIdle == [pc |-> "idle"]

NoCall == [stage |-> "none", method |-> <<>>, req |-> <<>>, cmd |-> "none", data |-> <<>>]

ClientInit ==
    /\ running = TRUE
    /\ mu = 0
    /\ sendSeq = 0
    /\ chSend = <<>>
    /\ wire = {}
    /\ sessionMap = EmptyMap
    /\ pc = [c \in Calls |-> "idle"]
    /\ kind = [c \in Calls |-> Plain]
    /\ cmdOf = [c \in Calls |-> CmdRpcMethod]
    /\ seq = [c \in Calls |-> 0]
    /\ done = [c \in Calls |-> EmptyChan]
    /\ got = [c \in Calls |-> NoMsg]
    /\ ret = [c \in Calls |-> NoRet]
    /\ router = RouterIdle
    /\ nIn = 0
    /\ closePc = "open"
    /\ nSent = [c \in Calls |-> 0]
    /\ nRecv = [c \in Calls |-> 0]

Init ==
    /\ ClientInit
    /\ namedCall = NoCall

\* ---- callers ----

\* Enter without the test of client.running.
EnterNoRunningCheck(c, k, cmd, line) ==
    /\ pc[c] = "idle"
    /\ IF c = 1 THEN TRUE ELSE pc[c - 1] # "idle"
    /\ mu = 0
    /\ kind' = [kind EXCEPT ![c] = k]
    /\ cmdOf' = [cmdOf EXCEPT ![c] = cmd]
    /\ mu' = c
    /\ sendSeq' = sendSeq + 1
    /\ seq' = [seq EXCEPT ![c] = sendSeq + 1]
    /\ pc' = [pc EXCEPT ![c] = "send"]
    /\ UNCHANGED <<namedCall, running, chSend, wire, sessionMap, done, got, ret, router,
                   nIn, closePc, nSent, nRecv>>

\* Enter that derives the correlation ID from the size of sessionMap instead
\* of the atomic add on sendSeq.
EnterSeqFromMapSize(c, k, cmd, line) ==
    /\ pc[c] = "idle"
    /\ IF c = 1 THEN TRUE ELSE pc[c - 1] # "idle"
    /\ mu = 0
    /\ kind' = [kind EXCEPT ![c] = k]
    /\ cmdOf' = [cmdOf EXCEPT ![c] = cmd]
    /\ IF running
       THEN /\ mu' = c
            /\ sendSeq' = Cardinality(DOMAIN sessionMap) + 1
            /\ seq' = [seq EXCEPT ![c] = Cardinality(DOMAIN sessionMap) + 1]
            /\ pc' = [pc EXCEPT ![c] = "send"]
            /\ UNCHANGED ret
       ELSE /\ pc' = [pc EXCEPT ![c] = "done"]
            /\ ret' = [ret EXCEPT ![c] =
                        [line |-> line, body |-> "nil", err |-> ErrRpcClientIsDisconnected]]
            /\ UNCHANGED <<mu, sendSeq, seq>>
    /\ UNCHANGED <<namedCall, running, chSend, wire, sessionMap, done, got, router, nIn,
                   closePc, nSent, nRecv>>

\* An invocation with argument cmd gets the mutex.  If running, it allocates
\* the session (seq from the atomic add, a fresh channel of capacity 1) and
\* goes on to the hand-off, still holding the mutex; else Unlock and return
\* ErrRpcClientIsDisconnected.  Waiting for the mutex changes nothing, so an
\* invocation is idle until it has it; invocations are interchangeable, so
\* they enter in index order.
Enter(c, k, cmd, line) ==
    /\ pc[c] = "idle"
    /\ IF c = 1 THEN TRUE ELSE pc[c - 1] # "idle"
    /\ mu = 0
    /\ kind' = [kind EXCEPT ![c] = k]
    /\ cmdOf' = [cmdOf EXCEPT ![c] = cmd]
    /\ IF running
       THEN /\ mu' = c
            /\ sendSeq' = sendSeq + 1
            /\ seq' = [seq EXCEPT ![c] = sendSeq + 1]
            /\ pc' = [pc EXCEPT ![c] = "send"]
            /\ UNCHANGED ret
       ELSE /\ pc' = [pc EXCEPT ![c] = "done"]
            /\ ret' = [ret EXCEPT ![c] =
                        [line |-> line, body |-> "nil", err |-> ErrRpcClientIsDisconnected]]
            /\ UNCHANGED <<mu, sendSeq, seq>>
    /\ UNCHANGED <<namedCall, running, chSend, wire, sessionMap, done, got, router, nIn,
                   closePc, nSent, nRecv>>

callCmdEnter(c, cmd) == Enter(c, Plain, cmd, 54)

callCmdWithTimeoutEnter(c, cmd) == Enter(c, Timed, cmd, 84)

\* HandOff that forgets client.sessionMap[session.seq] = session.
HandOffNoRegister(c, k) ==
    /\ pc[c] = "send"
    /\ kind[c] = k
    /\ mu = c
    /\ Len(chSend) < QueueCap
    /\ chSend' = Append(chSend, NewRpcMessage(cmdOf[c], seq[c]))
    /\ mu' = 0
    /\ pc' = [pc EXCEPT ![c] = "wait"]
    /\ UNCHANGED <<namedCall, running, sendSeq, wire, sessionMap, kind, cmdOf, seq, done,
                   got, ret, router, nIn, closePc, nSent, nRecv>>

\* client.chSend <- frame completes (the queue has room), the session is put
\* into sessionMap, and the mutex is released.
HandOff(c, k) ==
    /\ pc[c] = "send"
    /\ kind[c] = k
    /\ mu = c
    /\ Len(chSend) < QueueCap
    /\ chSend' = Append(chSend, NewRpcMessage(cmdOf[c], seq[c]))
    /\ sessionMap' = MapPut(sessionMap, seq[c], c)
    /\ mu' = 0
    /\ pc' = [pc EXCEPT ![c] = "wait"]
    /\ UNCHANGED <<namedCall, running, sendSeq, wire, kind, cmdOf, seq, done, got, ret,
                   router, nIn, closePc, nSent, nRecv>>

callCmdSend(c) == HandOff(c, Plain)

callCmdWithTimeoutSend(c) == HandOff(c, Timed)

\* The hand-off timeout of a variant that registers the session before the
\* select.
SendTimeoutRegistered(c) ==
    /\ pc[c] = "send"
    /\ kind[c] = Timed
    /\ mu = c
    /\ mu' = 0
    /\ sessionMap' = MapPut(sessionMap, seq[c], c)
    /\ pc' = [pc EXCEPT ![c] = "done"]
    /\ ret' = [ret EXCEPT ![c] =
                [line |-> 80, body |-> "nil", err |-> ErrRpcCallTimeout]]
    /\ UNCHANGED <<namedCall, running, sendSeq, chSend, wire, kind, cmdOf, seq, done, got,
                   router, nIn, closePc, nSent, nRecv>>

\* The timer of the hand-off select fires first: Unlock, return
\* ErrRpcCallTimeout; no session was registered.
callCmdWithTimeoutSendTimeout(c) ==
    /\ pc[c] = "send"
    /\ kind[c] = Timed
    /\ mu = c
    /\ mu' = 0
    /\ pc' = [pc EXCEPT ![c] = "done"]
    /\ ret' = [ret EXCEPT ![c] =
                [line |-> 80, body |-> "nil", err |-> ErrRpcCallTimeout]]
    /\ UNCHANGED <<namedCall, running, sendSeq, chSend, wire, sessionMap, kind, cmdOf, seq,
                   done, got, router, nIn, closePc, nSent, nRecv>>

\* Recv that returns ErrRpcCallTimeout for a closed channel.
RecvWrongError(c, k, lineClosed, lineValue) ==
    /\ pc[c] = "wait"
    /\ kind[c] = k
    /\ IF done[c].buf # <<>>
       THEN /\ got' = [got EXCEPT ![c] = Head(done[c].buf)]
            /\ done' = [done EXCEPT ![c].buf = <<>>]
            /\ ret' = [ret EXCEPT ![c] =
                        [line |-> lineValue,
                         body |-> Head(done[c].buf).msg.body,
                         err |-> Head(done[c].buf).err]]
       ELSE /\ done[c].closed
            /\ ret' = [ret EXCEPT ![c] =
                        [line |-> lineClosed, body |-> "nil",
                         err |-> ErrRpcCallTimeout]]
            /\ UNCHANGED <<got, done>>
    /\ nRecv' = [nRecv EXCEPT ![c] = @ + 1]
    /\ pc' = [pc EXCEPT ![c] = "remove"]
    /\ UNCHANGED <<namedCall, running, mu, sendSeq, chSend, wire, sessionMap, kind, cmdOf,
                   seq, router, nIn, closePc, nSent>>

\* Recv that tests for the close before it looks for a buffered value.
RecvClosedFirst(c, k, lineClosed, lineValue) ==
    /\ pc[c] = "wait"
    /\ kind[c] = k
    /\ IF done[c].closed
       THEN /\ ret' = [ret EXCEPT ![c] =
                        [line |-> lineClosed, body |-> "nil",
                         err |-> ErrRpcClientIsDisconnected]]
            /\ UNCHANGED <<got, done>>
       ELSE /\ done[c].buf # <<>>
            /\ got' = [got EXCEPT ![c] = Head(done[c].buf)]
            /\ done' = [done EXCEPT ![c].buf = <<>>]
            /\ ret' = [ret EXCEPT ![c] =
                        [line |-> lineValue,
                         body |-> Head(done[c].buf).msg.body,
                         err |-> Head(done[c].buf).err]]
    /\ nRecv' = [nRecv EXCEPT ![c] = @ + 1]
    /\ pc' = [pc EXCEPT ![c] = "remove"]
    /\ UNCHANGED <<namedCall, running, mu, sendSeq, chSend, wire, sessionMap, kind, cmdOf,
                   seq, router, nIn, closePc, nSent>>

\* msg, ok := <-session.done.  A buffered value is received even when the
\* channel has been closed; a closed empty channel yields ok = false.
Recv(c, k, lineClosed, lineValue) ==
    /\ pc[c] = "wait"
    /\ kind[c] = k
    /\ IF done[c].buf # <<>>
       THEN /\ got' = [got EXCEPT ![c] = Head(done[c].buf)]
            /\ done' = [done EXCEPT ![c].buf = <<>>]
            /\ ret' = [ret EXCEPT ![c] =
                        [line |-> lineValue,
                         body |-> Head(done[c].buf).msg.body,
                         err |-> Head(done[c].buf).err]]
       ELSE /\ done[c].closed
            /\ ret' = [ret EXCEPT ![c] =
                        [line |-> lineClosed, body |-> "nil",
                         err |-> ErrRpcClientIsDisconnected]]
            /\ UNCHANGED <<got, done>>
    /\ nRecv' = [nRecv EXCEPT ![c] = @ + 1]
    /\ pc' = [pc EXCEPT ![c] = "remove"]
    /\ UNCHANGED <<namedCall, running, mu, sendSeq, chSend, wire, sessionMap, kind, cmdOf,
                   seq, router, nIn, closePc, nSent>>

callCmdRecv(c) == Recv(c, Plain, 60, 62)

callCmdWithTimeoutRecv(c) == Recv(c, Timed, 91, 93)

\* The timer of the wait select fires: return ErrRpcCallTimeout (after the
\* deferred removeSession).
callCmdWithTimeoutRecvTimeout(c) ==
    /\ pc[c] = "wait"
    /\ kind[c] = Timed
    /\ ret' = [ret EXCEPT ![c] =
                [line |-> 95, body |-> "nil", err |-> ErrRpcCallTimeout]]
    /\ pc' = [pc EXCEPT ![c] = "remove"]
    /\ UNCHANGED <<namedCall, running, mu, sendSeq, chSend, wire, sessionMap, kind, cmdOf,
                   seq, done, got, router, nIn, closePc, nSent, nRecv>>

\* removeSession without the delete.
removeSessionNoDelete(c) ==
    /\ pc[c] = "remove"
    /\ mu = 0
    /\ pc' = [pc EXCEPT ![c] = "done"]
    /\ UNCHANGED <<namedCall, running, mu, sendSeq, chSend, wire, sessionMap, kind, cmdOf,
                   seq, done, got, ret, router, nIn, closePc, nSent, nRecv>>

\* The deferred client.removeSession(session.seq); the invocation then returns.
\* (Re-creating the map when it became empty leaves an empty map.)
removeSession(c) ==
    /\ pc[c] = "remove"
    /\ mu = 0
    /\ sessionMap' = MapDelete(sessionMap, seq[c])
    /\ pc' = [pc EXCEPT ![c] = "done"]
    /\ UNCHANGED <<namedCall, running, mu, sendSeq, chSend, wire, kind, cmdOf, seq, done,
                   got, ret, router, nIn, closePc, nSent, nRecv>>

\* ---- transport ----

\* The transport's writer takes the next frame from chSend.
TransportWrite ==
    /\ chSend # <<>>
    /\ wire' = wire \cup {Head(chSend)}
    /\ chSend' = Tail(chSend)
    /\ UNCHANGED <<namedCall, running, mu, sendSeq, sessionMap, pc, kind, cmdOf, seq, done,
                   got, ret, router, nIn, closePc, nSent, nRecv>>

\* Transport close clears the running flag under the client mutex, once.
Stop ==
    /\ closePc = "open"
    /\ mu = 0
    /\ running' = FALSE
    /\ closePc' = "stopping"
    /\ UNCHANGED <<namedCall, mu, sendSeq, chSend, wire, sessionMap, pc, kind, cmdOf, seq,
                   done, got, ret, router, nIn, nSent, nRecv>>

\* OnClose that replaces the map without closing the channels.
OnCloseNoClose ==
    /\ closePc = "stopping"
    /\ mu = 0
    /\ sessionMap' = EmptyMap
    /\ closePc' = "closed"
    /\ UNCHANGED <<namedCall, running, mu, sendSeq, chSend, wire, pc, kind, cmdOf, seq,
                   done, got, ret, router, nIn, nSent, nRecv>>

\* OnClose that closes the channels and keeps the map.
OnCloseKeepMap ==
    /\ closePc = "stopping"
    /\ mu = 0
    /\ done' = [c \in Calls |->
                 IF \E s \in DOMAIN sessionMap : sessionMap[s] = c
                 THEN [done[c] EXCEPT !.closed = TRUE]
                 ELSE done[c]]
    /\ closePc' = "closed"
    /\ UNCHANGED <<namedCall, running, mu, sendSeq, chSend, wire, sessionMap, pc, kind,
                   cmdOf, seq, got, ret, router, nIn, nSent, nRecv>>

\* The OnClose callback: under the mutex close session.done of every session
\* in sessionMap and replace sessionMap by an empty map.
OnClose ==
    /\ closePc = "stopping"
    /\ mu = 0
    /\ done' = [c \in Calls |->
                 IF \E s \in DOMAIN sessionMap : sessionMap[s] = c
                 THEN [done[c] EXCEPT !.closed = TRUE]
                 ELSE done[c]]
    /\ sessionMap' = EmptyMap
    /\ closePc' = "closed"
    /\ UNCHANGED <<namedCall, running, mu, sendSeq, chSend, wire, pc, kind, cmdOf, seq,
                   got, ret, router, nIn, nSent, nRecv>>

\* ---- HandleOnMessage callback ----

\* case CmdPing: nothing.
OnMessagePing ==
    /\ router.pc = "idle"
    /\ nIn < MaxFrames
    /\ nIn' = nIn + 1
    /\ UNCHANGED <<namedCall, running, mu, sendSeq, chSend, wire, sessionMap, pc, kind,
                   cmdOf, seq, done, got, ret, router, closePc, nSent, nRecv>>

\* default: the frame goes to the engine's handler for its cmd, or is logged.
OnMessageDefault ==
    /\ router.pc = "idle"
    /\ nIn < MaxFrames
    /\ nIn' = nIn + 1
    /\ UNCHANGED <<namedCall, running, mu, sendSeq, chSend, wire, sessionMap, pc, kind,
                   cmdOf, seq, done, got, ret, router, closePc, nSent, nRecv>>

\* ReplyOf with the CmdRpcMethod case copied to the CmdRpcError case.
ReplyOfNilErr(msg) == [msg |-> msg, err |-> ErrNil]

\* The RpcMessage the callback builds for a frame.
ReplyOf(msg) ==
    [msg |-> msg, err |-> IF msg.cmd = CmdRpcError THEN msg.body ELSE ErrNil]

\* The lookup with client.sendSeq as the key instead of msg.RpcSeq().
OnMessageLookupLatest(msg) ==
    /\ router.pc = "idle"
    /\ nIn < MaxFrames
    /\ msg.cmd \in {CmdRpcMethod, CmdRpcError}
    /\ mu = 0
    /\ nIn' = nIn + 1
    /\ router' = IF sendSeq \in DOMAIN sessionMap
                 THEN [pc |-> "deliver", msg |-> msg, session |-> sessionMap[sendSeq]]
                 ELSE [pc |-> "drop", msg |-> msg]
    /\ UNCHANGED <<namedCall, running, mu, sendSeq, chSend, wire, sessionMap, pc, kind,
                   cmdOf, seq, done, got, ret, closePc, nSent, nRecv>>

\* case CmdRpcMethod / CmdRpcError: Lock, look msg.RpcSeq() up in sessionMap,
\* Unlock.  Found: go on to send on session.done; else go on to log that no
\* rpcsession is waiting.
OnMessageLookup(msg) ==
    /\ router.pc = "idle"
    /\ nIn < MaxFrames
    /\ msg.cmd \in {CmdRpcMethod, CmdRpcError}
    /\ mu = 0
    /\ nIn' = nIn + 1
    /\ router' = IF msg.seq \in DOMAIN sessionMap
                 THEN [pc |-> "deliver", msg |-> msg, session |-> sessionMap[msg.seq]]
                 ELSE [pc |-> "drop", msg |-> msg]
    /\ UNCHANGED <<namedCall, running, mu, sendSeq, chSend, wire, sessionMap, pc, kind,
                   cmdOf, seq, done, got, ret, closePc, nSent, nRecv>>

\* log.Debug("no rpcsession waiting for rpc response, ..."): the frame is
\* dropped and the callback returns.
OnMessageDrop ==
    /\ router.pc = "drop"
    /\ router' = RouterIdle
    /\ UNCHANGED <<namedCall, running, mu, sendSeq, chSend, wire, sessionMap, pc, kind,
                   cmdOf, seq, done, got, ret, nIn, closePc, nSent, nRecv>>

\* session.done <- &RpcMessage{...}: completes when the buffer has room;
\* blocks while it is full.
OnMessageDeliver ==
    /\ router.pc = "deliver"
    /\ ~done[router.session].closed
    /\ Len(done[router.session].buf) < 1
    /\ done' = [done EXCEPT ![router.session].buf = <<ReplyOf(router.msg)>>]
    /\ nSent' = [nSent EXCEPT ![router.session] = @ + 1]
    /\ router' = RouterIdle
    /\ UNCHANGED <<namedCall, running, mu, sendSeq, chSend, wire, sessionMap, pc, kind,
                   cmdOf, seq, got, ret, nIn, closePc, nRecv>>

\* session.done <- ... on a channel the close callback has closed: panic.
OnMessagePanic ==
    /\ router.pc = "deliver"
    /\ done[router.session].closed
    /\ router' = [pc |-> "panic", msg |-> router.msg, session |-> router.session]
    /\ UNCHANGED <<namedCall, running, mu, sendSeq, chSend, wire, sessionMap, pc, kind,
                   cmdOf, seq, done, got, ret, nIn, closePc, nSent, nRecv>>

\* The reply frames the peer may send: for every seq a success reply and an
\* error reply, in any order, any number of times (up to MaxFrames frames).
InFrames ==
    {[cmd |-> CmdRpcMethod, seq |-> s, body |-> BodyOk] : s \in Seqs}
    \cup {[cmd |-> CmdRpcError, seq |-> s, body |-> BodyFail] : s \in Seqs}

Next ==
    \/ \E c \in Calls, cmd \in CallCmds : callCmdEnter(c, cmd)
    \/ \E c \in Calls : callCmdSend(c)
    \/ \E c \in Calls : callCmdRecv(c)
    \/ \E c \in Calls, cmd \in CallCmds : callCmdWithTimeoutEnter(c, cmd)
    \/ \E c \in Calls : callCmdWithTimeoutSend(c)
    \/ \E c \in Calls : callCmdWithTimeoutSendTimeout(c)
    \/ \E c \in Calls : callCmdWithTimeoutRecv(c)
    \/ \E c \in Calls : callCmdWithTimeoutRecvTimeout(c)
    \/ \E c \in Calls : removeSession(c)
    \/ TransportWrite
    \/ Stop
    \/ OnClose
    \/ OnMessagePing
    \/ OnMessageDefault
    \/ \E msg \in InFrames : OnMessageLookup(msg)
    \/ OnMessageDrop
    \/ OnMessageDeliver
    \/ OnMessagePanic

Spec == Init /\ [][Next]_vars


\* ---- Call: the named-method adapter ----

\* Method names: every length up to MaxNameLen of one repeated byte, and the
\* name "Echo".
Methods ==
    {[i \in 1..n |-> 109] : n \in 0..MaxNameLen} \cup {<<69, 99, 104, 111>>}

\* Marshaled requests (the codec's output), as byte sequences.
Requests == {<<>>, <<7>>, <<7, 255>>}

\* byte(n)
ByteOf(n) == n % ByteMod

\* data = append(data, make([]byte, len(method)+1)...)
Appended(method, req) == req \o [i \in 1..(Len(method) + 1) |-> 0]

\* copy(data[len(data)-len(method)-1:], method)
Copied(method, req) ==
    LET data == Appended(method, req)
        off == Len(data) - Len(method) - 1
    IN  [i \in 1..Len(data) |->
            IF i > off /\ i - off <= Len(method) THEN method[i - off] ELSE data[i]]

\* data[len(data)-1] = byte(len(method))
CallPayload(method, req) ==
    LET data == Copied(method, req)
    IN  [data EXCEPT ![Len(data)] = ByteOf(Len(method))]

\* Call has marshaled its request and dispatches
\* callCmdWithTimeout(CmdRpcMethod, data, timeout).
Call ==
    /\ namedCall.stage = "call"
    /\ namedCall' = [namedCall EXCEPT
                        !.stage = "dispatched",
                        !.cmd = CmdRpcMethod,
                        !.data = CallPayload(namedCall.method, namedCall.req)]
    /\ UNCHANGED <<running, mu, sendSeq, chSend, wire, sessionMap, pc, kind,
                   cmdOf, seq, done, got, ret, router, nIn, closePc, nSent, nRecv>>

\* An invocation of Call with any method name and any marshaled request.
CallInit ==
    /\ ClientInit
    /\ namedCall \in [stage : {"call"}, method : Methods, req : Requests,
                       cmd : {"none"}, data : {<<>>}]

CallSpec == CallInit /\ [][Call]_vars

\* ---- fairness ----
\* A goroutine whose channel operation or mutex acquisition can complete does
\* complete, timers fire, and the transport invokes the close callback once it
\* has begun to stop.  Nothing obliges a caller to call, the transport writer
\* to drain chSend, the peer to send, or the transport to close.
CallStep(c) ==
    \/ callCmdSend(c)
    \/ callCmdRecv(c)
    \/ callCmdWithTimeoutSend(c)
    \/ callCmdWithTimeoutSendTimeout(c)
    \/ callCmdWithTimeoutRecv(c)
    \/ callCmdWithTimeoutRecvTimeout(c)
    \/ removeSession(c)

Fairness ==
    /\ \A c \in Calls : WF_vars(CallStep(c))
    /\ WF_vars(OnClose)
    /\ WF_vars(OnMessageDrop \/ OnMessageDeliver)

FairSpec == Init /\ [][Next]_vars /\ Fairness

\* ---- vocabulary of the claims ----
Returned(c) == pc[c] = "done"

HasSession(c) == seq[c] # 0

\* The frames ever handed to the send path.
HandedOff == {chSend[i] : i \in 1..Len(chSend)} \cup wire

\* c waits on session.done with nothing delivered, not closed.
WaitingUnresolved(c) ==
    pc[c] = "wait" /\ done[c].buf = <<>> /\ ~done[c].closed

\* c is suspended on a blocking operation: a hand-off to a full chSend, or a
\* wait on a result channel that has nothing to give.
Suspended(c) ==
    \/ pc[c] = "send" /\ Len(chSend) = QueueCap
    \/ WaitingUnresolved(c)

\* ---- C1 ----
\* C1: no two invocations have the same correlation ID, and whatever an
\* invocation received from its result channel (and returned) is a reply frame
\* whose sequence number is the invocation's own correlation ID.
C1_UniqueIdsAndOwnReply ==
    /\ \A c, d \in Calls :
          (c # d /\ HasSession(c) /\ HasSession(d)) => seq[c] # seq[d]
    /\ \A c \in Calls :
          /\ got[c] # NoMsg =>
                /\ got[c].msg.seq = seq[c]
                /\ ret[c].body = got[c].msg.body
                /\ ret[c].err = got[c].err
          /\ \A i \in 1..Len(done[c].buf) : done[c].buf[i].msg.seq = seq[c]

\* Two invocations have both returned a reply, the later ID answered first
\* or not.
C1_Witness ==
    \E c, d \in Calls :
        /\ c # d
        /\ Returned(c) /\ Returned(d)
        /\ got[c] # NoMsg /\ got[d] # NoMsg
        /\ got[c].msg.cmd # got[d].msg.cmd

C3_Original ==
    \A c \in Calls :
        (done[c].closed /\ Returned(c)) => ret[c].err = ErrRpcClientIsDisconnected

\* C3 (amended): every call that is outstanding once the close callback has
\* run eventually returns; a call whose channel the callback closed returns
\* ErrRpcClientIsDisconnected, unless a reply had been delivered into its
\* channel (it returns that reply) or it is a timed call whose timer fired
\* (ErrRpcCallTimeout); without a delivered reply a plain call returns
\* ErrRpcClientIsDisconnected and nothing else.
C3_ClosedCallsReturn ==
    /\ (closePc = "closed") ~> (\A c \in Calls : pc[c] \in {"idle", "done"})
    /\ [](\A c \in Calls :
            (done[c].closed /\ pc[c] \in {"remove", "done"}) =>
                /\ \/ ret[c].line \in {60, 91} /\ ret[c].err = ErrRpcClientIsDisconnected
                   \/ ret[c].line \in {62, 93} /\ got[c] # NoMsg /\ nSent[c] > 0
                   \/ ret[c].line = 95 /\ kind[c] = Timed /\ ret[c].err = ErrRpcCallTimeout
                /\ (kind[c] = Plain /\ nSent[c] = 0) => ret[c].line = 60)

\* Two calls were outstanding when the transport closed and both returned
\* ErrRpcClientIsDisconnected from their closed channels.
C3_Witness ==
    \E c, d \in Calls :
        /\ c # d
        /\ done[c].closed /\ done[d].closed
        /\ Returned(c) /\ Returned(d)
        /\ ret[c].line = 60 /\ ret[d].line = 91

\* ---- C4 ----
\* C4: running never becomes true again; while running is false no record is
\* added to sessionMap; once the close callback has run, sessionMap is empty
\* (and so stays empty); and every call that has not returned after the close
\* callback either had its channel closed by it or holds a delivered reply or
\* has already left its wait.
C4_NoRegistrationAfterClose ==
    /\ [][~running => (~running' /\ DOMAIN sessionMap' \subseteq DOMAIN sessionMap)]_vars
    /\ [](closePc = "closed" => sessionMap = EmptyMap)
    /\ [](closePc = "closed" => \A c \in Calls : ~WaitingUnresolved(c))
    /\ [](closePc # "open" => ~running)

\* The close callback drained a registered call, and a later call was
\* rejected.
C4_Witness ==
    /\ closePc = "closed"
    /\ \E c \in Calls : done[c].closed
    /\ \E d \in Calls : Returned(d) /\ ret[d].line \in {54, 84}

\* ---- C5 ----
\* C5: a callCmdWithTimeout invocation that returned from the hand-off select
\* by its timer returned ErrRpcCallTimeout, sessionMap has no entry for its
\* correlation ID, and no frame with its ID was ever handed to chSend.
C5_HandOffTimeoutLeavesNothing ==
    \A c \in Calls :
        ret[c].line = 80 =>
            /\ Returned(c)
            /\ ret[c].err = ErrRpcCallTimeout
            /\ HasSession(c)
            /\ seq[c] \notin DOMAIN sessionMap
            /\ \A s \in DOMAIN sessionMap : sessionMap[s] # c
            /\ \A f \in HandedOff : f.seq # seq[c]

\* A timed call gave up on a full send queue.
C5_Witness ==
    \E c \in Calls :
        /\ ret[c].line = 80
        /\ Len(chSend) = QueueCap
        /\ \E d \in Calls : d # c /\ pc[d] = "wait"

\* ---- C6 ----
\* C6: a callCmdWithTimeout invocation that left its wait by the timer returns
\* ErrRpcCallTimeout without having received anything; when the handler then
\* looks up a reply frame carrying the ID of a call that has returned so, it
\* finds no session and goes on to log and drop the frame, and neither the
\* lookup nor the drop changes sessionMap, any result channel, or any other
\* call's position or outcome.
C6_LateReplyDiscarded ==
    /\ [](\A c \in Calls :
            ret[c].line = 95 =>
                /\ kind[c] = Timed
                /\ ret[c].err = ErrRpcCallTimeout
                /\ got[c] = NoMsg)
    /\ [][\A c \in Calls :
            (/\ Returned(c)
             /\ ret[c].line = 95
             /\ router.pc = "idle"
             /\ router'.pc # "idle"
             /\ router'.msg.seq = seq[c]) =>
                /\ router'.pc = "drop"
                /\ UNCHANGED <<sessionMap, done, pc, ret, got, nSent, nRecv, mu>>]_vars
    /\ [][(router.pc = "drop" /\ router' # router) =>
                /\ router' = RouterIdle
                /\ UNCHANGED <<running, mu, sendSeq, chSend, wire, sessionMap, pc,
                               kind, cmdOf, seq, done, got, ret, nIn, closePc,
                               nSent, nRecv>>]_vars

\* The handler is dropping a reply for a call that returned ErrRpcCallTimeout
\* from its wait, while another call is still waiting.
C6_Witness ==
    /\ router.pc = "drop"
    /\ \E c, d \in Calls :
          /\ Returned(c) /\ ret[c].line = 95
          /\ router.msg.seq = seq[c]
          /\ d # c /\ WaitingUnresolved(d)

\* ---- C7 ----
\* C7 as stated: sessionMap has a record for k exactly when the owner of k is
\* waiting and not yet resolved by a timeout, a delivered reply or the close.
C7_Original ==
    \A k \in Seqs :
        (k \in DOMAIN sessionMap) <=>
            (\E c \in Calls : seq[c] = k /\ WaitingUnresolved(c))

\* C7 (amended): sessionMap has a record for k exactly when the owner of k has
\* completed its hand-off, has not yet run its deferred removeSession and has
\* not been drained by the close callback (it may already be resolved by a
\* timeout or a delivered reply); every call that waits unresolved has its
\* record; the record under k is the owner's; no two keys hold one session.
C7_RecordWhileRegistered ==
    /\ \A k \in Seqs :
          (k \in DOMAIN sessionMap) <=>
              (\E c \in Calls :
                  seq[c] = k /\ pc[c] \in {"wait", "remove"} /\ ~done[c].closed)
    /\ \A k \in DOMAIN sessionMap : seq[sessionMap[k]] = k
    /\ \A c \in Calls :
          WaitingUnresolved(c) =>
              (seq[c] \in DOMAIN sessionMap /\ sessionMap[seq[c]] = c)
    /\ \A k1, k2 \in DOMAIN sessionMap : k1 # k2 => sessionMap[k1] # sessionMap[k2]

\* A call has received its reply and its record is still in sessionMap, next
\* to the record of a call that waits unresolved.
C7_Witness ==
    \E c, d \in Calls :
        /\ pc[c] = "remove" /\ got[c] # NoMsg
        /\ seq[c] \in DOMAIN sessionMap
        /\ d # c /\ WaitingUnresolved(d) /\ seq[d] \in DOMAIN sessionMap

\* ---- C8 ----
\* C8: every result channel is written at most once (a send by the handler or
\* a close by the close callback) and read at most once.
C8_Original ==
    \A c \in Calls :
        /\ nSent[c] + (IF done[c].closed THEN 1 ELSE 0) <= 1
        /\ nRecv[c] <= 1

\* ---- C9 ----
\* C9 as stated: the result channel of a call that returned ErrRpcCallTimeout
\* holds no delivered value and has not been closed.
C9_Original ==
    \A c \in Calls :
        (Returned(c) /\ ret[c].err = ErrRpcCallTimeout) =>
            (done[c].buf = <<>> /\ ~done[c].closed)

\* C9 (amended): a call that returns ErrRpcCallTimeout has received nothing
\* from its result channel; a value the handler delivered to the channel (or a
\* close by the close callback) before the session was removed stays there
\* unread: received or abandoned, never both.
C9_TimeoutNeverReceives ==
    \A c \in Calls :
        ret[c].err = ErrRpcCallTimeout =>
            /\ ret[c].line \in {80, 95}
            /\ nRecv[c] = 0
            /\ got[c] = NoMsg
            /\ Len(done[c].buf) = nSent[c]

\* A call returned ErrRpcCallTimeout from its wait and its channel holds a
\* reply delivered after the timer fired.
C9_Witness ==
    \E c \in Calls :
        /\ Returned(c) /\ ret[c].line = 95
        /\ done[c].buf # <<>>

\* ---- C10 ----
\* C10: no invocation holds the client mutex while it is suspended on the
\* hand-off to a full chSend or on its result channel.
C10_Original ==
    \A c \in Calls : Suspended(c) => mu # c

\* ---- C11 ----
\* C11: whenever the handler is about to send on a result channel, the send
\* can complete at once: the channel's buffer has room, whatever the caller's
\* timer and removeSession have done and however many reply frames carried
\* the same correlation ID.
C11_Original ==
    router.pc = "deliver" => Len(done[router.session].buf) < 1

\* ---- C12 ----
\* C12: once an invocation has returned, with whatever outcome, sessionMap has
\* no entry for its correlation ID and no entry holding its session; when
\* every invocation that started has returned, sessionMap is empty.
C12_NoEntryAfterReturn ==
    /\ \A c \in Calls :
          Returned(c) =>
              /\ seq[c] \notin DOMAIN sessionMap
              /\ \A k \in DOMAIN sessionMap : sessionMap[k] # c
    /\ (\A c \in Calls : pc[c] \in {"idle", "done"}) => sessionMap = EmptyMap

\* Two invocations have returned, one with a reply and one with
\* ErrRpcCallTimeout from its wait, both having been registered.
C12_Witness ==
    \E c, d \in Calls :
        /\ Returned(c) /\ ret[c].line \in {62, 93}
        /\ Returned(d) /\ ret[d].line = 95
        /\ sessionMap = EmptyMap

\* ---- C13 ----
\* d is a callCmd invocation suspended on the hand-off to a full chSend, the
\* client mutex in its hands: only the transport writer can release it.
BlockedOnSend(d) ==
    /\ kind[d] = Plain
    /\ pc[d] = "send"
    /\ mu = d
    /\ Len(chSend) = QueueCap

\* C13: a callCmdWithTimeout invocation never comes to wait for something
\* that only a drain of the send queue can bring about: when its timer has
\* fired and it has only its deferred removeSession left, the client mutex is
\* not in the hands of a callCmd invocation suspended on the full send queue.
C13_Original ==
    \A c \in Calls :
        (kind[c] = Timed /\ pc[c] = "remove") =>
            ~(\E d \in Calls : BlockedOnSend(d))

\* C13 as a liveness property: every callCmdWithTimeout invocation that has
\* the mutex or has had it eventually returns.
C13_TimedCallsReturn ==
    \A c \in Calls : (kind[c] = Timed /\ pc[c] # "idle") ~> Returned(c)

\* ---- C14 ----
\* The invocation that owns correlation ID k has removed its session after
\* the timer of its wait fired.
TimedOutAndRemoved(k) ==
    \E c \in Calls : seq[c] = k /\ Returned(c) /\ ret[c].line = 95

\* The invocation that owns correlation ID k has run its removeSession,
\* whatever made it leave its wait.
OwnerRemoved(k) ==
    \E c \in Calls : seq[c] = k /\ Returned(c)

\* A frame with correlation ID k has been handed to the send path.
FrameHandedOff(k) == \E f \in HandedOff : f.seq = k

\* C14 as stated: when the handler's lookup of a reply to a handed-off frame
\* finds no session, the owner has timed out and removed its session or the
\* close callback has drained sessionMap.
C14_Original ==
    [][(/\ router.pc = "idle"
        /\ router'.pc = "drop"
        /\ FrameHandedOff(router'.msg.seq)) =>
            (TimedOutAndRemoved(router'.msg.seq) \/ closePc = "closed")]_vars

\* C14 (amended): when the handler's lookup of a reply to a handed-off frame
\* finds no session, the owner has already removed its session (after its
\* timer fired or after it received an earlier reply) or the close callback
\* has drained sessionMap; a frame is never in the send path with its
\* session not yet registered where the handler can look.
C14_NoSessionOnlyAfterRemoval ==
    /\ [][(/\ router.pc = "idle"
            /\ router'.pc = "drop"
            /\ FrameHandedOff(router'.msg.seq)) =>
                (OwnerRemoved(router'.msg.seq) \/ closePc = "closed")]_vars
    /\ [](mu = 0 =>
            \A k \in Seqs :
                (FrameHandedOff(k) /\ ~OwnerRemoved(k) /\ closePc # "closed") =>
                    k \in DOMAIN sessionMap)

\* The handler found no session for a reply to a handed-off frame whose owner
\* returned ErrRpcCallTimeout, the transport still open.
C14_Witness ==
    /\ router.pc = "drop"
    /\ FrameHandedOff(router.msg.seq)
    /\ TimedOutAndRemoved(router.msg.seq)
    /\ closePc = "open"

\* ---- C15 ----
\* C15: every correlation ID handed out is larger than sendSeq was and than
\* every ID handed out before (so none is handed out twice, whatever became
\* of the earlier invocations), sendSeq never decreases and is the largest
\* ID handed out, and an invocation keeps its ID.
C15_IdsIncreaseNeverReused ==
    /\ [][\A c \in Calls :
            /\ (seq[c] = 0 /\ seq'[c] # 0) =>
                  /\ seq'[c] > sendSeq
                  /\ sendSeq' = seq'[c]
                  /\ \A d \in Calls : seq'[c] > seq[d]
            /\ seq[c] # 0 => seq'[c] = seq[c]]_vars
    /\ [][sendSeq' >= sendSeq]_vars
    /\ [](\A c \in Calls : seq[c] <= sendSeq)
    /\ [](\A c, d \in Calls :
            (c < d /\ HasSession(c) /\ HasSession(d)) => seq[c] < seq[d])

\* An ID was consumed by an invocation that timed out during the hand-off,
\* and a later invocation got a larger one after it.
C15_Witness ==
    \E c, d \in Calls :
        /\ Returned(c) /\ ret[c].line = 80
        /\ HasSession(d) /\ seq[d] > seq[c]
        /\ pc[d] = "wait"

\* ---- C16 ----
\* The outcome the claim gives for a reply frame: body and error.
OutcomeOf(f) ==
    [body |-> f.body, err |-> IF f.cmd = CmdRpcError THEN f.body ELSE ErrNil]

\* C16 as stated: once the handler has sent a reply on the session of an
\* invocation and the invocation has returned, it has returned a reply: the
\* frame's body with the frame's body as error message for CmdRpcError, the
\* body with no error for CmdRpcMethod.
C16_Original ==
    \A c \in Calls :
        (Returned(c) /\ nSent[c] > 0) =>
            /\ got[c] # NoMsg
            /\ ret[c].body = OutcomeOf(got[c].msg).body
            /\ ret[c].err = OutcomeOf(got[c].msg).err

\* C16 (amended): the message the handler puts on a result channel for a
\* CmdRpcError frame carries the frame's body as its error, and for a
\* CmdRpcMethod frame no error; an invocation that receives the message
\* returns the frame's body and that error, which is neither
\* ErrRpcClientIsDisconnected nor ErrRpcCallTimeout.
C16_ReceivedReplyOutcome ==
    \A c \in Calls :
        /\ \A i \in 1..Len(done[c].buf) :
              done[c].buf[i].err = OutcomeOf(done[c].buf[i].msg).err
        /\ got[c] # NoMsg =>
              /\ pc[c] \in {"remove", "done"}
              /\ ret[c].line \in {62, 93}
              /\ ret[c].body = OutcomeOf(got[c].msg).body
              /\ ret[c].err = OutcomeOf(got[c].msg).err
              /\ ret[c].err \notin {ErrRpcClientIsDisconnected, ErrRpcCallTimeout}
              /\ got[c].msg.cmd = CmdRpcError => ret[c].err # ErrNil

\* One invocation returned a remote error and another a successful reply.
C16_Witness ==
    \E c, d \in Calls :
        /\ Returned(c) /\ got[c] # NoMsg /\ got[c].msg.cmd = CmdRpcError
        /\ ret[c].err = BodyFail
        /\ Returned(d) /\ got[d] # NoMsg /\ got[d].msg.cmd = CmdRpcMethod
        /\ ret[d].err = ErrNil /\ ret[d].body = BodyOk

\* ---- C17 ----
\* What a receiver reads from a payload: the last byte is the length of the
\* method name, the name is the bytes before it, the request what is left.
NameLenIn(data) == data[Len(data)]

NameIn(data) == SubSeq(data, Len(data) - NameLenIn(data), Len(data) - 1)

RequestIn(data) == SubSeq(data, 1, Len(data) - 1 - NameLenIn(data))

\* C17: for every method name and every marshaled request, Call dispatches
\* under CmdRpcMethod the request followed by the name's bytes followed by one
\* byte whose value is the name's length, and the receiver recovers the name
\* and the request from it.
C17_Original ==
    namedCall.stage = "dispatched" =>
        /\ namedCall.cmd = CmdRpcMethod
        /\ namedCall.data =
              namedCall.req \o namedCall.method \o <<Len(namedCall.method)>>
        /\ NameIn(namedCall.data) = namedCall.method
        /\ RequestIn(namedCall.data) = namedCall.req

\* C17 for the names of at most 255 bytes.
C17_ShortNames ==
    (namedCall.stage = "dispatched" /\ Len(namedCall.method) < ByteMod) =>
        /\ namedCall.cmd = CmdRpcMethod
        /\ namedCall.data =
              namedCall.req \o namedCall.method \o <<Len(namedCall.method)>>
        /\ NameIn(namedCall.data) = namedCall.method
        /\ RequestIn(namedCall.data) = namedCall.req

\* ---- C18 ----
\* C18: the handler is never about to send, and never has sent, on a result
\* channel that the close callback has closed.  (No channel is closed twice:
\* the callback runs once and closes only the sessions in sessionMap.)
C18_Original ==
    /\ router.pc = "deliver" => ~done[router.session].closed
    /\ router.pc # "panic"

\* ---- C19 ----
\* C19: a reply the handler delivered into the result channel of a callCmd
\* invocation survives a close by the close callback: the close leaves the
\* buffered message in the channel, and once the invocation has left its wait
\* it has received that reply and returns its body and error from line 62,
\* not ErrRpcClientIsDisconnected.
C19_DeliveredReplySurvivesClose ==
    /\ [](\A c \in Calls :
            (kind[c] = Plain /\ done[c].closed /\ nSent[c] > 0) =>
                /\ pc[c] = "wait" => done[c].buf # <<>>
                /\ pc[c] \in {"remove", "done"} =>
                      /\ ret[c].line = 62
                      /\ got[c] # NoMsg
                      /\ got[c].msg.seq = seq[c]
                      /\ ret[c].body = got[c].msg.body
                      /\ ret[c].err = got[c].err
                      /\ ret[c].err # ErrRpcClientIsDisconnected)
    /\ [][\A c \in Calls :
            (closePc = "stopping" /\ closePc' = "closed") =>
                done'[c].buf = done[c].buf]_vars

\* A callCmd invocation whose channel held a delivered reply when the close
\* callback closed it has returned the reply.
C19_Witness ==
    \E c \in Calls :
        /\ kind[c] = Plain
        /\ done[c].closed
        /\ Returned(c)
        /\ ret[c].line = 62
        /\ ret[c].body = BodyOk

TypeOK ==
    /\ running \in BOOLEAN
    /\ mu \in 0..NCalls
    /\ sendSeq \in 0..NCalls
    /\ Len(chSend) <= QueueCap
    /\ DOMAIN sessionMap \subseteq Seqs
    /\ \A c \in Calls : Len(done[c].buf) <= 1

====
